---- MODULE Spec2Model ----
(***************************************************************************)
(* A model of minimulllm's tool engine: the schema compiler                *)
(* (LLMToolParser), the registry and dispatcher (LLMToolManager) and the   *)
(* conversation loops that drive them (code_generate, code_agent_execute), *)
(* the agents' conversation state (OpenAI, DeepSeek), the flows of flow.py *)
(* and generate_and_execute_code.                                          *)
(***************************************************************************)
EXTENDS Integers, Sequences, FiniteSets, TLC

(***************************************************************************)
(* Python values.  A value is a tagged tuple, so that values of different  *)
(* Python types can be compared: <<"str", s>>, <<"int", n>>, <<"none">>,   *)
(* <<"list", items>>, <<"dict", pairs>> with pairs a sequence of           *)
(* <<key, value>> in insertion order, keys unique.                         *)
(***************************************************************************)
Str(s) == <<"str", s>>

Num(n) == <<"int", n>>

None == <<"none">>

List(items) == <<"list", items>>

Dict(pairs) == <<"dict", pairs>>

IsDict(v) == v[1] = "dict"

IsScalar(v) == v[1] \in {"str", "int"}

Keys(d) == {d[2][j][1] : j \in 1..Len(d[2])}

\* d[key] for a key of d
Get(d, key) ==
    LET j == CHOOSE j \in 1..Len(d[2]) : d[2][j][1] = key
    IN  d[2][j][2]

\* d[key] = val on a Python dict: an existing key keeps its position
DictSet(pairs, key, val) ==
    IF \E j \in 1..Len(pairs) : pairs[j][1] = key
    THEN [j \in 1..Len(pairs) |-> IF pairs[j][1] = key THEN <<key, val>> ELSE pairs[j]]
    ELSE Append(pairs, <<key, val>>)

(***************************************************************************)
(* JSON text is modelled at the level of its tokens: a text is a sequence  *)
(* of tokens, a token is a punctuation mark <<"p", c>> or a literal that   *)
(* carries its value (<<"str", s>>, <<"int", n>>).  json.dumps writes the  *)
(* tokens of a value and json.loads parses a token sequence, for scalars   *)
(* (flat arrays and objects: the payloads of call requests).               *)
(***************************************************************************)
P(c) == <<"p", c>>

IsLiteral(tok) == tok[1] \in {"str", "int"}

\* json.dumps(v): a scalar, None, or a list or dict of such values
RECURSIVE json_dumps(_)
json_dumps(v) ==
    LET RECURSIVE dumps_items(_)
        dumps_items(items) ==
            IF Len(items) = 0 THEN <<>>
            ELSE IF Len(items) = 1 THEN json_dumps(items[1])
            ELSE json_dumps(items[1]) \o <<P(",")>> \o dumps_items(Tail(items))
        RECURSIVE dumps_pairs(_)
        dumps_pairs(pairs) ==
            IF Len(pairs) = 0 THEN <<>>
            ELSE IF Len(pairs) = 1
            THEN <<Str(pairs[1][1]), P(":")>> \o json_dumps(pairs[1][2])
            ELSE <<Str(pairs[1][1]), P(":")>> \o json_dumps(pairs[1][2]) \o <<P(",")>>
                 \o dumps_pairs(Tail(pairs))
    IN  IF IsScalar(v) THEN <<v>>
        ELSE IF v[1] = "list" THEN <<P("[")>> \o dumps_items(v[2]) \o <<P("]")>>
        ELSE IF v[1] = "dict" THEN <<P("{")>> \o dumps_pairs(v[2]) \o <<P("}")>>
        ELSE <<P("null")>>

\* the elements of an array body: literal (, literal)*
RECURSIVE loads_items(_)
loads_items(toks) ==
    IF Len(toks) = 0 THEN [ok |-> TRUE, items |-> <<>>]
    ELSE IF ~IsLiteral(toks[1]) THEN [ok |-> FALSE, items |-> <<>>]
    ELSE IF Len(toks) = 1 THEN [ok |-> TRUE, items |-> <<toks[1]>>]
    ELSE IF Len(toks) = 2 \/ toks[2] # P(",") THEN [ok |-> FALSE, items |-> <<>>]
    ELSE LET rest == loads_items(SubSeq(toks, 3, Len(toks)))
         IN  [ok |-> rest.ok, items |-> <<toks[1]>> \o rest.items]

\* the members of an object body: string : literal (, string : literal)*; a
\* repeated key keeps its first position and takes the last value
RECURSIVE loads_pairs(_, _)
loads_pairs(toks, acc) ==
    IF Len(toks) = 0 THEN [ok |-> TRUE, pairs |-> acc]
    ELSE IF Len(toks) < 3 THEN [ok |-> FALSE, pairs |-> <<>>]
    ELSE IF toks[1][1] # "str" \/ toks[2] # P(":") \/ ~IsLiteral(toks[3])
         THEN [ok |-> FALSE, pairs |-> <<>>]
    ELSE IF Len(toks) = 3 THEN [ok |-> TRUE, pairs |-> DictSet(acc, toks[1][2], toks[3])]
    ELSE IF Len(toks) = 4 \/ toks[4] # P(",") THEN [ok |-> FALSE, pairs |-> <<>>]
    ELSE loads_pairs(SubSeq(toks, 5, Len(toks)), DictSet(acc, toks[1][2], toks[3]))

\* json.loads(text): [ok, value]; ok = FALSE stands for json.JSONDecodeError
json_loads(toks) ==
    IF Len(toks) = 0 THEN [ok |-> FALSE, value |-> None]
    ELSE IF Len(toks) = 1
         THEN IF IsLiteral(toks[1]) THEN [ok |-> TRUE, value |-> toks[1]]
              ELSE IF toks[1] = P("null") THEN [ok |-> TRUE, value |-> None]
              ELSE [ok |-> FALSE, value |-> None]
    ELSE IF toks[1] = P("[") /\ toks[Len(toks)] = P("]")
         THEN LET r == loads_items(SubSeq(toks, 2, Len(toks) - 1))
              IN  [ok |-> r.ok, value |-> IF r.ok THEN List(r.items) ELSE None]
    ELSE IF toks[1] = P("{") /\ toks[Len(toks)] = P("}")
         THEN LET r == loads_pairs(SubSeq(toks, 2, Len(toks) - 1), <<>>)
              IN  [ok |-> r.ok, value |-> IF r.ok THEN Dict(r.pairs) ELSE None]
    ELSE [ok |-> FALSE, value |-> None]

(***************************************************************************)
(* Python exceptions and call outcomes.  An outcome is what a call gives   *)
(* its caller: a returned value or a raised exception; `calls` lists the   *)
(* callable bodies that ran, each with the keyword arguments it received.  *)
(***************************************************************************)
Exc(type, msg) == [type |-> type, msg |-> msg]

NoExc == Exc("", <<>>)

Return(v, calls) == [kind |-> "return", value |-> v, exc |-> NoExc, calls |-> calls]

Raise(e, calls) == [kind |-> "raise", value |-> None, exc |-> e, calls |-> calls]

(***************************************************************************)
(* Declared types, as typing.get_origin / get_args see them: a tuple whose *)
(* head is the origin and whose tail are the type arguments.               *)
(*   <<"str">> <<"int">> <<"bool">> <<"float">>    builtin primitives      *)
(*   <<"List">>, <<"List", T>>        typing.List, List[T] (origin list)   *)
(*   <<"Dict">>, <<"Dict", K, V>>     typing.Dict, Dict[K, V] (origin dict)*)
(*   <<"Union", T1, .., Tn>>          Union; NoneType is <<"NoneType">>    *)
(*   <<"list">>, <<"dict">>           the builtins list, dict (origin None)*)
(*   <<"class", name>>                any other class (origin None)        *)
(***************************************************************************)
TStr == <<"str">>

TInt == <<"int">>

TBool == <<"bool">>

TFloat == <<"float">>

TNone == <<"NoneType">>

TList(t) == <<"List", t>>

TDict(k, v) == <<"Dict", k, v>>

TOptional(t) == <<"Union", t, TNone>>

TUnion(t, u) == <<"Union", t, u>>

TClass(name) == <<"class", name>>

get_args(typ) == IF typ[1] \in {"List", "Dict", "Union"} THEN Tail(typ) ELSE <<>>

(***************************************************************************)
(* The callables.  A callable is known by its __qualname__; the operators  *)
(* below give what inspection and a call observe of it.                    *)
(***************************************************************************)
\* the directories that os.scandir finds, each with the files in it
FileSystem == [d \in {"."} |-> <<"a.txt">>]

\* the text files that open finds, each with its content
Files == [p \in {"a.txt"} |-> "COMPLETE"]

\* explore_directory and complete are tools of tools.py and clip_string is the
\* helper of example.py; the others are callables a caller may hand to register:
\*   add(a: int, b: int) -> int                          with a docstring
\*   greet(a: int, b: Optional[str] = None) -> str       with a docstring
\*   untyped(a: int, b) -> str                           with a docstring
\*   clip_string(string: str, max_length: int)           no return type, no docstring
\*   nodoc(a: int) -> str                                no docstring
\*   blank(a: int) -> str                                decorated with doc({})
\*   open_path(path: Path) -> str                        with a docstring
\* file_read of tools.py is described below too; the conversation loops
\* register it
Callables ==
    {"explore_directory", "complete", "add",
     "greet", "untyped", "clip_string", "nodoc", "blank", "open_path"}

\* the formal parameters, in order
Params(f) ==
    CASE f = "explore_directory" ->
            <<"directory_path", "depth", "include_files", "include_directories">>
      [] f = "complete" -> <<>>
      [] f = "file_read" -> <<"file_path">>
      [] f = "add" -> <<"a", "b">>
      [] f = "greet" -> <<"a", "b">>
      [] f = "untyped" -> <<"a", "b">>
      [] f = "clip_string" -> <<"string", "max_length">>
      [] f = "nodoc" -> <<"a">>
      [] f = "blank" -> <<"a">>
      [] f = "open_path" -> <<"path">>

\* the formal parameters that have a default value
Defaults(f) ==
    CASE f = "explore_directory" -> {"depth", "include_files", "include_directories"}
      [] f = "greet" -> {"b"}
      [] OTHER -> {}

\* get_type_hints(f) without "return": <<parameter, type>> in declaration order
Hints(f) ==
    CASE f = "explore_directory" ->
            << <<"directory_path", TStr>>, <<"depth", TInt>>,
               <<"include_files", TBool>>, <<"include_directories", TBool>> >>
      [] f = "complete" -> <<>>
      [] f = "file_read" -> << <<"file_path", TStr>> >>
      [] f = "add" -> << <<"a", TInt>>, <<"b", TInt>> >>
      [] f = "greet" -> << <<"a", TInt>>, <<"b", TOptional(TStr)>> >>
      [] f = "untyped" -> << <<"a", TInt>> >>
      [] f = "clip_string" -> << <<"string", TStr>>, <<"max_length", TInt>> >>
      [] f = "nodoc" -> << <<"a", TInt>> >>
      [] f = "blank" -> << <<"a", TInt>> >>
      [] f = "open_path" -> << <<"path", TClass("Path")>> >>

\* whether get_type_hints(f) has a "return" entry
HasReturn(f) == f # "clip_string"

\* whether f.__doc__ is non-empty (truthy)
HasDoc(f) == f \notin {"clip_string", "nodoc"}

\* whether f.__doc__ holds white space only: doc({}) sets it to "\n\n"
BlankDoc(f) == f = "blank"

\* the parameters that a line "<param> (" of f.__doc__ describes
DocArgs(f) ==
    IF f = "explore_directory"
    THEN {"directory_path", "depth", "include_files", "include_directories"}
    ELSE IF f = "file_read" THEN {"file_path"}
    ELSE {}

\* one entry of explore_directory's result
Entry(dir, name) ==
    Dict(<< <<"name", Str(name)>>, <<"path", Str(dir)>>, <<"type", Str("file")>> >>)

\* the body of f run with keyword arguments kw (a dict that binds every
\* parameter without a default and nothing but parameters)
Body(f, kw) ==
    LET ran == << [fn |-> f, kw |-> kw] >>
    IN  CASE f = "explore_directory" ->
               LET dir == Get(kw, "directory_path")
               IN  IF dir[1] = "str" /\ dir[2] \in DOMAIN FileSystem
                   THEN Return(List([j \in 1..Len(FileSystem[dir[2]]) |->
                                       Entry(dir[2], FileSystem[dir[2]][j])]), ran)
                   ELSE Raise(Exc("FileNotFoundError", <<"no such file or directory", dir>>), ran)
          [] f = "complete" -> Return(Str("COMPLETE"), ran)
          [] f = "file_read" ->
               LET path == Get(kw, "file_path")
               IN  IF path[1] = "str" /\ path[2] \in DOMAIN Files
                   THEN Return(Str(Files[path[2]]), ran)
                   ELSE Raise(Exc("FileNotFoundError", <<"file not found", path>>), ran)
          [] f = "add" ->
               LET a == Get(kw, "a")
                   b == Get(kw, "b")
               IN  IF a[1] = "int" /\ b[1] = "int"
                   THEN Return(Num(a[2] + b[2]), ran)
                   ELSE Raise(Exc("TypeError", <<"unsupported operand type(s) for +">>), ran)
          [] OTHER -> Return(Str(f), ran)

Range(seq) == {seq[j] : j \in 1..Len(seq)}

\* func(**arguments): Python binds the keyword arguments, then runs the body
Call(f, arguments) ==
    IF ~IsDict(arguments)
    THEN Raise(Exc("TypeError", <<"argument after ** must be a mapping">>), <<>>)
    ELSE IF ~(Keys(arguments) \subseteq Range(Params(f)))
    THEN Raise(Exc("TypeError", <<"got an unexpected keyword argument">>), <<>>)
    ELSE IF ~((Range(Params(f)) \ Defaults(f)) \subseteq Keys(arguments))
    THEN Raise(Exc("TypeError", <<"missing required positional argument">>), <<>>)
    ELSE Body(f, arguments)

(***************************************************************************)
(* LLMToolParser.  A parser step gives [ok, value, exc]: the value it      *)
(* returns, or the exception it raises.                                    *)
(***************************************************************************)
Ok(v) == [ok |-> TRUE, value |-> v, exc |-> NoExc]

Err(e) == [ok |-> FALSE, value |-> None, exc |-> e]

\* a description text: the parameter it is about and where it comes from
Text(param, what) == <<"text", param, what>>

\* the empty str ""
EmptyText == Text("", "")

\* all_params = [p for p in type_hints.keys() if p != "return"]
all_params(f) == [j \in 1..Len(Hints(f)) |-> Hints(f)[j][1]]

validate_type_hints(f) ==
    IF Len(Hints(f)) = 0 /\ ~HasReturn(f)
    THEN Err(Exc("TypeError", <<"no type hints", f>>))
    ELSE IF ~HasReturn(f)
    THEN Err(Exc("TypeError", <<"no return type hint", f>>))
    ELSE Ok(None)

\* parameters is a dict: every key must be an annotated parameter
validate_parameters(parameters, f) ==
    IF \E j \in 1..Len(parameters[2]) : parameters[2][j][1] \notin Range(all_params(f))
    THEN Err(Exc("ValueError", <<"parameter does not exist", f>>))
    ELSE Ok(None)

\* required is a list of names: every name must be an annotated parameter
validate_required(required, f) ==
    IF \E j \in 1..Len(required[2]) : required[2][j] \notin Range(all_params(f))
    THEN Err(Exc("ValueError", <<"parameter does not exist", f>>))
    ELSE Ok(None)

validate(f, parameters, required) ==
    LET hints == validate_type_hints(f)
        params == IF parameters # None THEN validate_parameters(parameters, f) ELSE Ok(None)
        req == IF required # None THEN validate_required(required, f) ELSE Ok(None)
    IN  IF ~hints.ok THEN hints
        ELSE IF ~params.ok THEN params
        ELSE req

extract_non_none_type_if_optional(typ) ==
    IF typ[1] = "Union" /\ TNone \in Range(get_args(typ))
    THEN LET not_none_args == SelectSeq(get_args(typ), LAMBDA a : a # TNone)
         IN  IF Len(not_none_args) = 1
             THEN Ok(not_none_args[1])
             ELSE Err(Exc("ValueError", <<"unsupported Union with NoneType", typ>>))
    ELSE Ok(typ)

\* returns the name of a primitive kind (a str) or a schema (a dict), or raises
RECURSIVE convert_python_type_to_json_schema_type(_)
convert_python_type_to_json_schema_type(python_type) ==
    LET type_args == get_args(python_type)
    IN  CASE python_type = TStr -> Ok(Str("string"))
          [] python_type = TInt -> Ok(Str("integer"))
          [] python_type = TBool -> Ok(Str("boolean"))
          [] python_type = TFloat -> Ok(Str("number"))
          [] python_type[1] = "List" ->
               IF Len(type_args) = 0
               THEN Ok(Dict(<< <<"type", Str("array")>>, <<"items", Dict(<<>>)>> >>))
               ELSE LET item_type == convert_python_type_to_json_schema_type(type_args[1])
                    IN  IF ~item_type.ok THEN item_type
                        ELSE IF item_type.value[1] = "str"
                        THEN Ok(Dict(<< <<"type", Str("array")>>,
                                        <<"items", Dict(<< <<"type", item_type.value>> >>)>> >>))
                        ELSE Ok(Dict(<< <<"type", Str("array")>>,
                                        <<"items", item_type.value>> >>))
          [] python_type[1] = "Dict" ->
               IF Len(type_args) = 2
               THEN LET value_type == convert_python_type_to_json_schema_type(type_args[2])
                    IN  IF ~value_type.ok THEN value_type
                        ELSE Ok(Dict(<< <<"type", Str("object")>>,
                                        <<"additionalProperties", value_type.value>> >>))
               ELSE Ok(Dict(<< <<"type", Str("object")>> >>))
          [] python_type[1] = "Union" ->
               Err(Exc("ValueError", <<"unsupported Union", python_type>>))
          [] OTHER -> Err(Exc("ValueError", <<"unsupported type", python_type>>))

\* param_schema.update(d) on the pairs of an ordered dict
RECURSIVE dict_update(_, _)
dict_update(pairs, more) ==
    IF Len(more) = 0 THEN pairs
    ELSE dict_update(DictSet(pairs, more[1][1], more[1][2]), Tail(more))

\* the schema of one parameter: description, then the type
param_schema(f, param, param_type) ==
    LET typ == extract_non_none_type_if_optional(param_type)
        json_schema_type == convert_python_type_to_json_schema_type(typ.value)
        param_description == IF HasDoc(f) /\ param \in DocArgs(f)
                             THEN Text(param, "docstring line")
                             ELSE Text(param, typ.value[1])
        described == << <<"description", param_description>> >>
    IN  IF ~typ.ok THEN typ
        ELSE IF ~json_schema_type.ok THEN json_schema_type
        ELSE IF json_schema_type.value[1] = "str"
        THEN Ok(Dict(Append(described, <<"type", json_schema_type.value>>)))
        ELSE Ok(Dict(dict_update(described, json_schema_type.value[2])))

\* the loop over type_hints.items(): the first parameter that fails raises
RECURSIVE generate_parameters_from(_, _, _)
generate_parameters_from(f, j, acc) ==
    IF j > Len(Hints(f)) THEN Ok(Dict(acc))
    ELSE LET one == param_schema(f, Hints(f)[j][1], Hints(f)[j][2])
         IN  IF ~one.ok THEN one
             ELSE generate_parameters_from(f, j + 1, DictSet(acc, Hints(f)[j][1], one.value))

generate_parameters(f) == generate_parameters_from(f, 1, <<>>)

\* func.__doc__.strip() when func.__doc__ is truthy
get_description(f, name) ==
    IF HasDoc(f) THEN Ok(IF BlankDoc(f) THEN EmptyText ELSE Text(f, "docstring"))
    ELSE Err(Exc("ValueError", <<"no docstring", name>>))

\* a schema: the "function" object of the JSON Schema that parse_func builds
Schema(name, description, parameters, required) ==
    [name |-> name, description |-> description,
     properties |-> parameters, required |-> required]

\* name, description, required, parameters: None when the caller omits them
parse_func(f, name, description, required, parameters) ==
    LET valid == validate(f, parameters, required)
        name_ == IF name = None THEN Str(f) ELSE name
        description_ == IF description = None THEN get_description(f, name_) ELSE Ok(description)
        parameters_ == IF parameters = None THEN generate_parameters(f) ELSE Ok(parameters)
        required_ == IF required = None THEN List(all_params(f)) ELSE required
    IN  IF ~valid.ok THEN valid
        ELSE IF ~description_.ok THEN description_
        ELSE IF ~parameters_.ok THEN parameters_
        ELSE Ok(Schema(name_[2], description_.value, parameters_.value, required_[2]))

(***************************************************************************)
(* LLMToolManager.  `self` is the registry: tools, the list of schemas     *)
(* handed to the model, and functions, the dict from name to callable.     *)
(* A method gives [self, out]: the registry it leaves and its outcome.     *)
(***************************************************************************)
Manager(tools_, functions_) == [tools |-> tools_, functions |-> functions_]

\* LLMToolManager(): no schema, no function
NewManager == Manager(<<>>, [n \in {} |-> ""])

\* self.functions[func_name] = func
SetItem(map, key, val) == [n \in DOMAIN map \cup {key} |-> IF n = key THEN val ELSE map[n]]

\* register that puts the schema in the place of an earlier one of the same name
register_replacing(self, f, name, description, required, parameters) ==
    LET schema == parse_func(f, name, description, required, parameters)
        func_name == IF name # None THEN name[2] ELSE f
    IN  IF ~schema.ok
        THEN [self |-> self, out |-> schema]
        ELSE [self |-> Manager(IF func_name \in DOMAIN self.functions
                               THEN [j \in 1..Len(self.tools) |->
                                       IF self.tools[j].name = func_name
                                       THEN schema.value ELSE self.tools[j]]
                               ELSE Append(self.tools, schema.value),
                               SetItem(self.functions, func_name, f)),
              out |-> schema]

\* register that binds the name before it compiles the schema
register_binding_first(self, f, name, description, required, parameters) ==
    LET schema == parse_func(f, name, description, required, parameters)
        func_name == IF name # None THEN name[2] ELSE f
    IN  IF ~schema.ok
        THEN [self |-> Manager(self.tools, SetItem(self.functions, func_name, f)),
              out |-> schema]
        ELSE [self |-> Manager(Append(self.tools, schema.value),
                               SetItem(self.functions, func_name, f)),
              out |-> schema]

\* register that keeps the callable a name is already bound to
register_first_wins(self, f, name, description, required, parameters) ==
    LET schema == parse_func(f, name, description, required, parameters)
        func_name == IF name # None THEN name[2] ELSE f
    IN  IF ~schema.ok
        THEN [self |-> self, out |-> schema]
        ELSE [self |-> Manager(Append(self.tools, schema.value),
                               IF func_name \in DOMAIN self.functions
                               THEN self.functions
                               ELSE SetItem(self.functions, func_name, f)),
              out |-> schema]

register(self, f, name, description, required, parameters) ==
    LET schema == parse_func(f, name, description, required, parameters)
        func_name == IF name # None THEN name[2] ELSE f
    IN  IF ~schema.ok
        THEN [self |-> self, out |-> schema]
        ELSE [self |-> Manager(Append(self.tools, schema.value),
                               SetItem(self.functions, func_name, f)),
              out |-> schema]

\* a result object that reports a failure, as a dispatcher that catches would build
Failure(tag, msg) == <<"failure", tag, msg>>

\* exec with a try/except around the call that turns the callable's exception
\* into a returned failure
exec_catching(self, res) ==
    LET func_name == res.name
        arguments == json_loads(res.arguments)
        called == Call(self.functions[func_name], arguments.value)
    IN  IF ~arguments.ok
        THEN [self |-> self, out |-> Raise(Exc("JSONDecodeError", <<"invalid JSON">>), <<>>)]
        ELSE IF func_name \notin DOMAIN self.functions
        THEN [self |-> self, out |-> Raise(Exc("ValueError", <<"not registered", func_name>>), <<>>)]
        ELSE IF called.kind = "raise"
        THEN [self |-> self, out |-> Return(Failure("ToolError", called.exc.msg), called.calls)]
        ELSE [self |-> self, out |-> called]

\* exec that looks the name up before it parses the payload
exec_lookup_first(self, res) ==
    LET func_name == res.name
        arguments == json_loads(res.arguments)
    IN  IF func_name \notin DOMAIN self.functions
        THEN [self |-> self, out |-> Raise(Exc("ValueError", <<"not registered", func_name>>), <<>>)]
        ELSE IF ~arguments.ok
        THEN [self |-> self, out |-> Raise(Exc("JSONDecodeError", <<"invalid JSON">>), <<>>)]
        ELSE [self |-> self, out |-> Call(self.functions[func_name], arguments.value)]

\* exec that calls func() and leaves the parsed arguments out
exec_without_arguments(self, res) ==
    LET func_name == res.name
        arguments == json_loads(res.arguments)
    IN  IF ~arguments.ok
        THEN [self |-> self, out |-> Raise(Exc("JSONDecodeError", <<"invalid JSON">>), <<>>)]
        ELSE IF func_name \notin DOMAIN self.functions
        THEN [self |-> self, out |-> Raise(Exc("ValueError", <<"not registered", func_name>>), <<>>)]
        ELSE [self |-> self, out |-> Call(self.functions[func_name], Dict(<<>>))]

\* exec that takes the callable out of the map when it calls it
exec_popping(self, res) ==
    LET func_name == res.name
        arguments == json_loads(res.arguments)
        rest == [n \in DOMAIN self.functions \ {func_name} |-> self.functions[n]]
    IN  IF ~arguments.ok
        THEN [self |-> self, out |-> Raise(Exc("JSONDecodeError", <<"invalid JSON">>), <<>>)]
        ELSE IF func_name \notin DOMAIN self.functions
        THEN [self |-> self, out |-> Raise(Exc("ValueError", <<"not registered", func_name>>), <<>>)]
        ELSE [self |-> Manager(self.tools, rest),
              out |-> Call(self.functions[func_name], arguments.value)]

\* res is the function part of a call request: [name, arguments]
exec(self, res) ==
    LET func_name == res.name
        arguments == json_loads(res.arguments)
    IN  IF ~arguments.ok
        THEN [self |-> self, out |-> Raise(Exc("JSONDecodeError", <<"invalid JSON">>), <<>>)]
        ELSE IF func_name \notin DOMAIN self.functions
        THEN [self |-> self, out |-> Raise(Exc("ValueError", <<"not registered", func_name>>), <<>>)]
        ELSE [self |-> self, out |-> Call(self.functions[func_name], arguments.value)]

(***************************************************************************)
(* State.                                                                  *)
(*   tools, functions   the fields of the LLMToolManager                   *)
(*   last               the last call made on the manager and its outcome  *)
(*   registered         the register calls that succeeded, in call order:  *)
(*                      the name, the callable and the schema returned     *)
(*   python_type        the declared type of a parameter handed to the     *)
(*                      schema compiler                                    *)
(*   compiled           what the compiler gave for it; None before it ran  *)
(* and, of a run of a conversation loop:                                   *)
(*   variant            the loop that runs: code_generate (example.py,     *)
(*                      example_with_args.py) or code_agent_execute        *)
(*   pc                 where the loop stands: "model" before coder.tool,  *)
(*                      "confirm" before input() for a call request,       *)
(*                      "exec" before tool_manager.exec, "result" after    *)
(*                      it, "done" once the loop is left; "off": no loop   *)
(*   ended              why the loop was left                              *)
(*   i                  the iterations of the for loop started so far      *)
(*   messages           coder._messages, the conversation state            *)
(*   next_prompt        the prompt of the next model request               *)
(*   function_calls, k  the call requests of the turn and the one handled  *)
(*   func_out           the outcome of tool_manager.exec for that request  *)
(*   code_registry      the names in DynamicCodeRegistry.functions         *)
(*   approved           the ids of the requests the operator approved      *)
(*   dispatched         the ids of the requests passed to exec, in order   *)
(*   turn_len           the length of messages just before the assistant   *)
(*                      message of the turn was appended                   *)
(*   asked              the call requests the model has made in the run    *)
(*   ev                 what the last step of the loop did                 *)
(***************************************************************************)
VARIABLES tools, functions, last, registered, python_type, compiled,
          variant, pc, ended, i, messages, next_prompt, function_calls, k, func_out,
          code_registry, approved, dispatched, turn_len, asked, ev, handled,
          agent_messages, calling, event,
          entry, max_retry, fpc, raw_message, attempt, obtained, response, runs, executed,
          answers, fev,
          spc, script_response, code_snippets, pos, state, code_result, chats, sent_in_pass,
          sev

registry == <<tools, functions>>

history == <<last, registered>>

compiler == <<python_type, compiled>>

loop == <<variant, pc, ended, i, messages, next_prompt, function_calls, k, func_out,
          code_registry, approved, dispatched, turn_len, asked, ev, handled>>

\* the agents on their own: each agent's _messages, its call in flight, and
\* the last thing that happened
agents == <<agent_messages, calling, event>>

\* the programs other than the registry, the compiler and the conversation loops
\* StructuredJSONFlow.run and CodeInterpreterFlow.run
flow == <<entry, max_retry, fpc, raw_message, attempt, obtained, response, runs, executed,
          answers, fev>>

\* generate_and_execute_code
script == <<spc, script_response, code_snippets, pos, state, code_result, chats, sent_in_pass,
            sev>>

programs == <<agents, flow, script>>

vars == <<tools, functions, history, compiler, loop, programs>>

\* the most registrations made on one manager
MaxRegs == 2

(***************************************************************************)
(* The calls made on the manager.                                          *)
(***************************************************************************)
RegisterCall(f, name, description, required, parameters) ==
    [f |-> f, name |-> name, description |-> description,
     required |-> required, parameters |-> parameters]

\* a parameters override that describes the parameters in names as strings
ParametersOf(names) ==
    Dict([j \in 1..Len(names) |->
            <<names[j], Dict(<< <<"description", Text(names[j], "override")>>,
                               <<"type", Str("string")>> >>)>>])

\* register(f) alone, under another tool's name, with a description override
\* (a text, or the empty str), with a parameters override for a parameter of
\* a class type, and with the required and parameters overrides, each absent,
\* naming parameters of f or naming none
RegisterCalls ==
    {RegisterCall(f, None, None, None, None) : f \in Callables}
    \cup {RegisterCall("explore_directory", Str("add"), None, None, None)}
    \cup {RegisterCall("nodoc", None, Text("nodoc", "override"), None, None),
          RegisterCall("complete", None, EmptyText, None, None),
          RegisterCall("open_path", None, None, None, ParametersOf(<<"path">>))}
    \cup {RegisterCall("add", None, None, required, None) :
            required \in {List(<<"b">>), List(<<"zzz">>)}}
    \cup {RegisterCall("add", None, None, None, parameters) :
            parameters \in {ParametersOf(<<"a">>), ParametersOf(<<"zzz">>)}}

\* the function part of a call request
Function(name, arguments) == [name |-> name, arguments |-> arguments]

\* argument maps that the model serialises into a payload
ArgMaps ==
    {Dict(<<>>),
     Dict(<< <<"a", Num(2)>>, <<"b", Num(3)>> >>),
     Dict(<< <<"a", Num(2)>> >>),
     Dict(<< <<"directory_path", Str(".")>> >>),
     Dict(<< <<"directory_path", Str("nope")>> >>)}

\* payloads that are no serialised map: an array, and text that is cut off
RawPayloads ==
    {<<P("["), Num(2), P(","), Num(3), P("]")>>,
     <<P("{"), Str("a"), P(":")>>}

Payloads == {json_dumps(m) : m \in ArgMaps} \cup RawPayloads

\* the names the model asks for; "foo" is never registered
RequestNames == {"add", "explore_directory", "foo"}

NoCall == RegisterCall("", None, None, None, None)

NoFunction == Function("", <<>>)

Last(op, call, res, before, reg, out) ==
    [op |-> op, call |-> call, res |-> res, before |-> before, reg |-> reg, out |-> out]

NoOutcome == Return(None, <<>>)

\* a register call that succeeded
Registered(name, f, schema) == [name |-> name, f |-> f, schema |-> schema]

\* no conversation loop runs
LoopOff ==
    /\ variant = "none"
    /\ pc = "off"
    /\ ended = ""
    /\ i = 0
    /\ messages = <<>>
    /\ next_prompt = <<"text", "">>
    /\ function_calls = <<>>
    /\ k = 0
    /\ func_out = NoOutcome
    /\ code_registry = {}
    /\ approved = {}
    /\ dispatched = <<>>
    /\ turn_len = 0
    /\ asked = 0
    /\ ev = "off"
    /\ handled = <<>>

\* no agent is used on its own
AgentsOff ==
    /\ agent_messages = <<>>
    /\ calling = <<>>
    /\ event = <<>>

\* no flow runs
FlowOff ==
    /\ entry = "none"
    /\ max_retry = 0
    /\ fpc = "off"
    /\ raw_message = <<>>
    /\ attempt = 0
    /\ obtained = <<>>
    /\ response = None
    /\ runs = 0
    /\ executed = <<>>
    /\ answers = <<>>
    /\ fev = "off"

\* generate_and_execute_code does not run
ScriptOff ==
    /\ spc = "off"
    /\ script_response = <<>>
    /\ code_snippets = <<>>
    /\ pos = 0
    /\ state = None
    /\ code_result = None
    /\ chats = 0
    /\ sent_in_pass = 0
    /\ sev = "off"

\* none of the other programs runs
ProgramsOff == AgentsOff /\ FlowOff /\ ScriptOff

\* the schema compiler is not called on its own
CompilerOff ==
    /\ python_type = TNone
    /\ compiled = Ok(None)

Init ==
    /\ tools = NewManager.tools
    /\ functions = NewManager.functions
    /\ last = Last("new", NoCall, NoFunction, NewManager, Ok(None), NoOutcome)
    /\ registered = <<>>
    /\ CompilerOff
    /\ LoopOff
    /\ ProgramsOff

\* tool_manager.register(f, ...)
Register(c) ==
    /\ Len(tools) < MaxRegs
    /\ \E self \in {Manager(tools, functions)} :
       \E r \in {register(self, c.f, c.name, c.description, c.required, c.parameters)} :
        /\ tools' = r.self.tools
        /\ functions' = r.self.functions
        /\ last' = Last("register", c, NoFunction, self, r.out, NoOutcome)
        /\ registered' = IF r.out.ok
                         THEN Append(registered, Registered(r.out.value.name, c.f, r.out.value))
                         ELSE registered
        /\ UNCHANGED <<compiler, programs, loop>>

\* tool_manager.exec(res)
Exec(res) ==
    \E self \in {Manager(tools, functions)} :
    \E r \in {exec(self, res)} :
        /\ tools' = r.self.tools
        /\ functions' = r.self.functions
        /\ last' = Last("exec", NoCall, res, self, Ok(None), r.out)
        /\ UNCHANGED <<registered, compiler, programs, loop>>

Next ==
    \/ \E c \in RegisterCalls : Register(c)
    \/ \E name \in RequestNames, arguments \in Payloads : Exec(Function(name, arguments))

\* the registry and the dispatcher, called in any order
Spec == Init /\ [][Next]_vars

(***************************************************************************)
(* The schema compiler on one declared type: the body of the loop of       *)
(* generate_parameters for a parameter x of a callable with a docstring    *)
(* that has no line for x.                                                 *)
(***************************************************************************)
\* the deepest nesting of the declared types
MaxDepth == 2

\* the types without a type argument: the primitives, a class, a union of two
\* alternatives and the builtin list
LeafTypes == {TStr, TInt, TFloat, TBool, TClass("Path"), TUnion(TInt, TStr), <<"list">>}

\* the declared types nested up to depth d
RECURSIVE Types(_)
Types(d) ==
    IF d = 0 THEN LeafTypes
    ELSE Types(d - 1)
         \cup {TList(t) : t \in Types(d - 1)}
         \cup {TDict(TStr, t) : t \in Types(d - 1)}
         \cup {<<"List">>, <<"Dict">>}

\* the declared types of a parameter: T and Optional[T]
DeclaredTypes == Types(MaxDepth) \cup {TOptional(t) : t \in Types(MaxDepth)}

InitTypes ==
    /\ tools = NewManager.tools
    /\ functions = NewManager.functions
    /\ last = Last("new", NoCall, NoFunction, NewManager, Ok(None), NoOutcome)
    /\ registered = <<>>
    /\ python_type \in DeclaredTypes
    /\ compiled = Ok(None)
    /\ LoopOff
    /\ ProgramsOff

\* generate_parameters, one pass of its loop: param_type to param_schema
Compile ==
    /\ compiled = Ok(None)
    /\ compiled' = param_schema("complete", "x", python_type)
    /\ UNCHANGED <<registry, history, python_type, loop, programs>>

NextTypes == Compile

\* the schema compiler applied to a declared type
SpecTypes == InitTypes /\ [][NextTypes]_vars

(***************************************************************************)
(* The conversation loops: code_generate and code_agent_execute.           *)
(***************************************************************************)
\* max_steps, the argument of the loop
MaxSteps == 2

\* the most call requests the model makes in one run
MaxCalls == 3

\* a message of the conversation state.  turn is the iteration that appended
\* it; idx is the number of call requests an assistant message carries and,
\* for a tool message, the position of the request it answers, so that
\* <<turn, idx>> is its tool_call_id
Msg(role, turn, idx, content) == [role |-> role, turn |-> turn, idx |-> idx, content |-> content]

\* OpenAI.__init__: self._messages = [{"role": "system", "content": system_prompt}]
SystemMessage == Msg("system", 0, 0, <<"text", "system prompt">>)

\* coder.append_message(m)
append_message(msgs, m) == [ok |-> TRUE, messages |-> Append(msgs, m)]

\* coder.pop_message(): removes the last message; list.pop() on an empty list
\* raises IndexError
pop_message(msgs) ==
    IF Len(msgs) = 0 THEN [ok |-> FALSE, messages |-> msgs]
    ELSE [ok |-> TRUE, messages |-> SubSeq(msgs, 1, Len(msgs) - 1)]

\* a call request of turn t at position j: the id and the function part
CallRequest(t, j, function) == [id |-> <<t, j>>, function |-> function]

\* the function parts the model asks for: a call that succeeds, one whose
\* callable raises, the complete tool, a name that is not registered, and a
\* payload that is cut off
LoopFunctions ==
    {Function("explore_directory", json_dumps(Dict(<< <<"directory_path", Str(".")>> >>))),
     Function("explore_directory", json_dumps(Dict(<< <<"directory_path", Str("nope")>> >>))),
     Function("complete", json_dumps(Dict(<<>>))),
     Function("foo", json_dumps(Dict(<<>>))),
     Function("explore_directory", <<P("{"), Str("a"), P(":")>>)}

\* the tool_calls of a model response: one or more call requests, n made so far
ToolCalls(n) ==
    UNION {[1..m -> LoopFunctions] : m \in 1..(MaxCalls - n)}

\* what the operator types: "y" approves, any other text declines
OperatorInputs == {"y", "n"}

\* the prompts
Prompt(text) == <<"text", text>>

ErrorPrompt(e) == <<"error", e.msg>>

\* the tools registered at the head of code_generate and in main of example2
register_in(managers, f) ==
    {register(self, f, None, None, None, None).self : self \in managers}

LoopManager ==
    CHOOSE self \in register_in(register_in(register_in({NewManager}, "file_read"),
                                            "explore_directory"), "complete") : TRUE

InitLoop ==
    /\ \E self \in {LoopManager} :
          /\ tools = self.tools
          /\ functions = self.functions
          /\ registered = <<Registered("file_read", "file_read", self.tools[1]),
                            Registered("explore_directory", "explore_directory", self.tools[2]),
                            Registered("complete", "complete", self.tools[3])>>
    /\ last = Last("new", NoCall, NoFunction, NewManager, Ok(None), NoOutcome)
    /\ CompilerOff
    /\ variant \in {"code_generate", "code_agent_execute"}
    /\ pc = "model"
    /\ ended = ""
    /\ i = 0
    /\ messages = <<SystemMessage>>
    /\ next_prompt = Prompt("goal")
    /\ function_calls = <<>>
    /\ k = 0
    /\ func_out = NoOutcome
    /\ code_registry = {}
    /\ approved = {}
    /\ dispatched = <<>>
    /\ turn_len = 0
    /\ asked = 0
    /\ ev = "start"
    /\ handled = <<>>
    /\ ProgramsOff

\* a request of the turn that the loop has finished with: its id, what became
\* of it and the next_prompt that its branch assigned
Handled(id, what, prompt) == [id |-> id, what |-> what, prompt |-> prompt]

\* a return that does not leave the loop
Leave_staying(why) ==
    /\ pc' = pc
    /\ ended' = ended

\* the loop is left
Leave(why) ==
    /\ pc' = "done"
    /\ ended' = why

\* leaving the loop over the requests of the turn after the first one handled
NextCall_breaking ==
    /\ k' = 0
    /\ pc' = "model"
    /\ function_calls' = <<>>
    /\ UNCHANGED ended

\* handing a request that failed to the dispatcher again
NextCall_retrying ==
    IF pc = "result" /\ func_out.kind = "raise"
    THEN /\ pc' = "exec"
         /\ UNCHANGED <<function_calls, k, ended>>
    ELSE IF k < Len(function_calls)
    THEN /\ k' = k + 1
         /\ pc' = IF variant = "code_generate" THEN "confirm" ELSE "exec"
         /\ UNCHANGED <<function_calls, ended>>
    ELSE /\ k' = 0
         /\ pc' = "model"
         /\ function_calls' = <<>>
         /\ UNCHANGED ended

\* the request at position k is handled: on to the next request of the turn,
\* or to the next iteration
NextCall ==
    IF k < Len(function_calls)
    THEN /\ k' = k + 1
         /\ pc' = IF variant = "code_generate" THEN "confirm" ELSE "exec"
         /\ UNCHANGED <<function_calls, ended>>
    ELSE /\ k' = 0
         /\ pc' = "model"
         /\ function_calls' = <<>>
         /\ UNCHANGED ended

\* coder.tool(next_prompt, tools): the user message and the reply are appended
tool(msgs, prompt, t, n) ==
    Append(Append(msgs, Msg("user", t, 0, prompt)), Msg("assistant", t, n, <<"reply">>))

\* the for loop is exhausted: range(max_steps) has no further element
Exhausted ==
    /\ pc = "model"
    /\ i >= MaxSteps
    /\ Leave("exhausted")
    /\ ev' = "exhausted"
    /\ UNCHANGED <<registry, history, compiler, programs, variant, i, messages, next_prompt, function_calls, k,
                   func_out, code_registry, approved, dispatched, turn_len, asked, handled>>

\* the model answers with text and no call request.  code_generate pops the
\* reply and asks the operator for the next prompt; code_agent_execute registers
\* the functions the text defines and continues with a fixed prompt.
ReplyText(text, defined) ==
    /\ pc = "model"
    /\ i < MaxSteps
    /\ i' = i + 1
    /\ turn_len' = Len(messages) + 1
    /\ ev' = "text"
    /\ handled' = <<>>
    /\ IF variant = "code_generate"
       THEN /\ defined = {}
            /\ messages' = pop_message(tool(messages, next_prompt, i + 1, 0)).messages
            /\ next_prompt' = Prompt(text)
            /\ UNCHANGED code_registry
       ELSE /\ text = "go on"
            /\ messages' = tool(messages, next_prompt, i + 1, 0)
            /\ next_prompt' = Prompt("what next")
            /\ code_registry' = code_registry \cup defined
    /\ UNCHANGED <<registry, history, compiler, programs, variant, pc, ended, function_calls, k, func_out,
                   approved, dispatched, asked>>

\* the model answers with call requests.  In code_agent_execute a reply whose
\* content is None makes `"def " in message` raise TypeError.
ReplyCalls(calls, content, defined) ==
    /\ pc = "model"
    /\ i < MaxSteps
    /\ i' = i + 1
    /\ turn_len' = Len(messages) + 1
    /\ messages' = tool(messages, next_prompt, i + 1, Len(calls))
    /\ function_calls' = [j \in 1..Len(calls) |-> CallRequest(i + 1, j, calls[j])]
    /\ asked' = asked + Len(calls)
    /\ handled' = <<>>
    /\ IF variant = "code_generate"
       THEN /\ content = "none"
            /\ defined = {}
            /\ k' = 1
            /\ pc' = "confirm"
            /\ ev' = "calls"
            /\ UNCHANGED <<ended, code_registry>>
       ELSE IF content = "none"
            THEN /\ defined = {}
                 /\ k' = 0
                 /\ Leave("exception")
                 /\ ev' = "crashed"
                 /\ UNCHANGED code_registry
            ELSE /\ k' = 1
                 /\ pc' = "exec"
                 /\ ev' = "calls"
                 /\ code_registry' = code_registry \cup defined
                 /\ UNCHANGED ended
    /\ UNCHANGED <<registry, history, compiler, programs, variant, next_prompt, func_out, approved, dispatched>>

\* a test that takes every answer of the operator for an approval
approves_anything(yN) == TRUE

\* yN == "y": the operator approves the request
approves(yN) == yN = "y"

\* code_generate asks the operator about the request at position k
Confirm(yN) ==
    /\ pc = "confirm"
    /\ approved' = IF yN = "y" THEN approved \cup {function_calls[k].id} ELSE approved
    /\ IF approves(yN)
       THEN /\ pc' = "exec"
            /\ ev' = "approved"
            /\ UNCHANGED <<messages, next_prompt, function_calls, k, ended, handled>>
       ELSE LET popped == pop_message(messages)
            IN  /\ messages' = popped.messages
                /\ IF popped.ok
                   THEN /\ next_prompt' = Prompt(yN)
                        /\ ev' = "declined"
                        /\ handled' = Append(handled,
                                         Handled(function_calls[k].id, "declined", Prompt(yN)))
                        /\ NextCall
                   ELSE /\ Leave("exception")
                        /\ ev' = "crashed"
                        /\ UNCHANGED <<next_prompt, function_calls, k, handled>>
    /\ UNCHANGED <<registry, history, compiler, programs, variant, i, func_out, code_registry, dispatched, turn_len,
                   asked>>

\* the request at position k is dispatched: tool_manager.exec(f.function).  In
\* code_agent_execute a name found in the DynamicCodeRegistry goes to
\* execute_function(func_name, **func_args) instead, and ** on the payload, a
\* str, raises TypeError outside the try block.
Dispatch ==
    LET f == function_calls[k]
        r == exec(Manager(tools, functions), f.function)
    IN  /\ pc = "exec"
        /\ IF variant = "code_agent_execute" /\ f.function.name \in code_registry
           THEN /\ Leave("exception")
                /\ ev' = "crashed"
                /\ UNCHANGED <<registry, func_out, dispatched>>
           ELSE /\ tools' = r.self.tools
                /\ functions' = r.self.functions
                /\ func_out' = r.out
                /\ dispatched' = Append(dispatched, f.id)
                /\ pc' = "result"
                /\ ev' = "executed"
                /\ UNCHANGED ended
        /\ UNCHANGED <<history, compiler, programs, variant, i, messages, next_prompt, function_calls, k,
                       code_registry, approved, turn_len, asked, handled>>

\* a test that never finds the sentinel
is_complete_never(func_res) == FALSE

\* func_res == "COMPLETE"
is_complete(func_res) == func_res = Str("COMPLETE")

\* the rest of the try block and its except clause: the sentinel ends the
\* loop, another result is appended as a tool message, an exception pops the
\* last message and becomes the next prompt
Result ==
    /\ pc = "result"
    /\ func_out' = NoOutcome
    /\ IF func_out.kind = "return"
       THEN IF is_complete(func_out.value)
            THEN /\ Leave("COMPLETE")
                 /\ ev' = "complete"
                 /\ UNCHANGED <<messages, next_prompt, function_calls, k, handled>>
            ELSE /\ messages' = append_message(messages,
                                   Msg("tool", function_calls[k].id[1], function_calls[k].id[2],
                                       <<"json", json_dumps(func_out.value)>>)).messages
                 /\ next_prompt' = Prompt("think next action")
                 /\ ev' = "appended"
                 /\ handled' = Append(handled, Handled(function_calls[k].id, "appended",
                                                       Prompt("think next action")))
                 /\ NextCall
       ELSE LET popped == pop_message(messages)
            IN  /\ messages' = popped.messages
                /\ IF popped.ok
                   THEN /\ next_prompt' = ErrorPrompt(func_out.exc)
                        /\ ev' = "failed"
                        /\ handled' = Append(handled, Handled(function_calls[k].id, "failed",
                                                              ErrorPrompt(func_out.exc)))
                        /\ NextCall
                   ELSE /\ Leave("exception")
                        /\ ev' = "crashed"
                        /\ UNCHANGED <<next_prompt, function_calls, k, handled>>
    /\ UNCHANGED <<registry, history, compiler, programs, variant, i, code_registry, approved, dispatched, turn_len,
                   asked>>

NextLoop ==
    \/ Exhausted
    \/ \E text \in {"go on", "stop"}, defined \in {{}, {"foo"}} : ReplyText(text, defined)
    \/ \E calls \in ToolCalls(asked), content \in {"none", "text"}, defined \in {{}, {"foo"}} :
          ReplyCalls(calls, content, defined)
    \/ \E yN \in OperatorInputs : Confirm(yN)
    \/ Dispatch
    \/ Result

\* a run of one of the conversation loops
SpecLoop == InitLoop /\ [][NextLoop]_vars

\* the function parts of a model that reads files: a file whose content is the
\* text COMPLETE, a file that is missing, the complete tool, and a call with
\* another result
SentinelFunctions ==
    {Function("file_read", json_dumps(Dict(<< <<"file_path", Str("a.txt")>> >>))),
     Function("file_read", json_dumps(Dict(<< <<"file_path", Str("nope.txt")>> >>))),
     Function("complete", json_dumps(Dict(<<>>))),
     Function("explore_directory", json_dumps(Dict(<< <<"directory_path", Str(".")>> >>)))}

SentinelCalls(n) ==
    UNION {[1..m -> SentinelFunctions] : m \in 1..(MaxCalls - n)}

NextSentinel ==
    \/ Exhausted
    \/ \E text \in {"go on", "stop"} : ReplyText(text, {})
    \/ \E calls \in SentinelCalls(asked), content \in {"none", "text"} :
          ReplyCalls(calls, content, {})
    \/ \E yN \in OperatorInputs : Confirm(yN)
    \/ Dispatch
    \/ Result

\* a run of one of the conversation loops with a model that reads files
SpecSentinel == InitLoop /\ [][NextSentinel]_vars

\* such a run in which every model request, every operator prompt and every
\* tool call returns: the loop takes its next step whenever it has one
SpecLoopLive == InitLoop /\ [][NextSentinel]_vars /\ WF_vars(NextSentinel)

(***************************************************************************)
(* The agents: OpenAI / DeepSeek chat and OpenAIToolUse / DeepSeekToolUse  *)
(* tool.  A call appends the user message, awaits the transport, and       *)
(* appends the reply; the transport may raise instead of returning.        *)
(***************************************************************************)
\* the most model requests made on the agents of one run
MaxRequests == 3

\* two agent objects, each built by its own __init__
Agents == {"openai", "deepseek"}

\* the registry and the loops are not used
RegistryOff ==
    /\ tools = NewManager.tools
    /\ functions = NewManager.functions
    /\ last = Last("new", NoCall, NoFunction, NewManager, Ok(None), NoOutcome)
    /\ registered = <<>>

\* no call is in flight on an agent
Idle == [op |-> "none", before |-> <<>>, prompt |-> Prompt("")]

\* a call of chat or tool that awaits the transport
InFlight(op, before, prompt) == [op |-> op, before |-> before, prompt |-> prompt]

Event(agent, what, before) == [agent |-> agent, what |-> what, before |-> before]

\* an append that reaches the list of every agent, as a list shared between
\* the objects would
append_shared(lists, a, m) == [b \in DOMAIN lists |-> Append(lists[b], m)]

\* self._messages.append(m) on agent a
append(lists, a, m) == [lists EXCEPT ![a] = Append(@, m)]

\* the number of requests sent on agent a so far
Sent(a) == Cardinality({j \in 1..Len(agent_messages[a]) : agent_messages[a][j].role = "user"})

\* the number of requests sent in the run
Requests == Sent("openai") + Sent("deepseek")

InitAgents ==
    /\ RegistryOff
    /\ CompilerOff
    /\ LoopOff
    /\ agent_messages = [a \in Agents |-> <<SystemMessage>>]
    /\ calling = [a \in Agents |-> Idle]
    /\ event = Event("openai", "new", <<>>)
    /\ FlowOff
    /\ ScriptOff

\* chat(message) / tool(message, tools) up to the await: the user message is
\* appended and the request is handed to the transport
Send(a, op, prompt) ==
    /\ calling[a].op = "none"
    /\ Requests < MaxRequests
    /\ agent_messages' = append(agent_messages, a, Msg("user", Sent(a) + 1, 0, prompt))
    /\ calling' = [calling EXCEPT ![a] = InFlight(op, agent_messages[a], prompt)]
    /\ event' = Event(a, "sent", agent_messages[a])
    /\ UNCHANGED <<tools, functions, history, compiler, loop, flow, script>>

\* the transport returns: the reply is appended and the call returns.  A reply
\* to chat carries no call request.
Receive(a, n) ==
    /\ calling[a].op # "none"
    /\ calling[a].op = "chat" => n = 0
    /\ agent_messages' = append(agent_messages, a, Msg("assistant", Sent(a), n, <<"reply">>))
    /\ calling' = [calling EXCEPT ![a] = Idle]
    /\ event' = Event(a, "completed", calling[a].before)
    /\ UNCHANGED <<tools, functions, history, compiler, loop, flow, script>>

\* the transport raises: the exception leaves chat / tool, which catch nothing
TransportError(a) ==
    /\ calling[a].op # "none"
    /\ calling' = [calling EXCEPT ![a] = Idle]
    /\ event' = Event(a, "failed", calling[a].before)
    /\ UNCHANGED <<tools, functions, history, compiler, loop, flow, script, agent_messages>>

NextAgents ==
    \/ \E a \in Agents, op \in {"chat", "tool"}, text \in {"goal", "more"} :
          Send(a, op, Prompt(text))
    \/ \E a \in Agents, n \in 0..1 : Receive(a, n)
    \/ \E a \in Agents : TransportError(a)

\* calls of chat and tool on two agents
SpecAgents == InitAgents /\ [][NextAgents]_vars

(***************************************************************************)
(* The flows of flow.py: StructuredJSONFlow.run, which asks the agent for  *)
(* a JSON text and parses it into the Command class, and                   *)
(* CodeInterpreterFlow.run, which calls it in a loop and runs the code of  *)
(* a response in a shell.  A text is a sequence of tokens, as above; the   *)
(* token P("text") stands for words around the JSON text.                  *)
(***************************************************************************)
\* the largest max_retry that StructuredJSONFlow.run is called with
MaxRetry == 2

\* max_retry: int = 3, the default that CodeInterpreterFlow.run runs with
DefaultRetry == 3

\* the most calls of StructuredJSONFlow.run in one CodeInterpreterFlow.run
MaxRuns == 2

\* the smallest and the largest element of a non-empty set of integers
Min(S) == CHOOSE x \in S : \A y \in S : x <= y

Max(S) == CHOOSE x \in S : \A y \in S : x >= y

\* str.find(tok) and str.rfind(tok): an index from 0, or -1
find(raw, tok) ==
    LET at == {j \in 1..Len(raw) : raw[j] = tok}
    IN  IF at = {} THEN -1 ELSE Min(at) - 1

rfind(raw, tok) ==
    LET at == {j \in 1..Len(raw) : raw[j] = tok}
    IN  IF at = {} THEN -1 ELSE Max(at) - 1

\* raw[start:stop]: a negative index counts from the end, and an index past
\* either end is moved to that end
slice(raw, start, stop) ==
    LET norm(x) == IF x < 0 THEN Max({Len(raw) + x, 0}) ELSE Min({x, Len(raw)})
    IN  IF norm(start) >= norm(stop) THEN <<>>
        ELSE SubSeq(raw, norm(start) + 1, norm(stop))

\* the fields of Command; none has a default, so each is required
CommandFields == <<"answer", "action", "code", "language">>

\* Command(**params): every field is required, answer and action are str,
\* code and language are str or None; other keys are ignored
Command(params) ==
    IF ~IsDict(params)
    THEN Err(Exc("TypeError", <<"argument after ** must be a mapping">>))
    ELSE IF ~(Range(CommandFields) \subseteq Keys(params))
    THEN Err(Exc("ValidationError", <<"field required">>))
    ELSE IF \/ \E f \in {"answer", "action"} : Get(params, f)[1] # "str"
            \/ \E f \in {"code", "language"} : Get(params, f)[1] \notin {"str", "none"}
    THEN Err(Exc("ValidationError", <<"input should be a valid string">>))
    ELSE Ok([f \in Range(CommandFields) |-> Get(params, f)])

\* StructuredJSONFlow.format: the text between the first "{" and the last "}"
\* is parsed and handed to the model class
format(raw) ==
    LET params == json_loads(slice(raw, find(raw, P("{")), rfind(raw, P("}")) + 1))
    IN  IF ~params.ok THEN Err(Exc("JSONDecodeError", <<"invalid JSON">>))
        ELSE Command(params.value)

\* the JSON text of a command
CommandText(answer, action, code, language) ==
    json_dumps(Dict(<< <<"answer", Str(answer)>>, <<"action", Str(action)>>,
                       <<"code", Str(code)>>, <<"language", Str(language)>> >>))

\* the replies of the agent: commands, a command with words around it, words
\* alone, and a JSON text that lacks a field
Replies ==
    {CommandText("run", "code", "ls", "bash"),
     <<P("text")>> \o CommandText("run", "code", "ls", "bash") \o <<P("text")>>,
     CommandText("try", "code", "x = 1", "python"),
     CommandText("ask", "wait", "ls", "bash"),
     CommandText("done", "complete", "", ""),
     <<P("text")>>,
     json_dumps(Dict(<< <<"answer", Str("run")>> >>))}

\* what the operator types at the confirmation
Typed == {"Y", "y", "n", ""}

\* str.upper()
upper(text) ==
    CASE text = "y" -> "Y"
      [] text = "n" -> "N"
      [] OTHER -> text

\* a test that takes every answer for a yes
proceeds_always(yN) == TRUE

\* not (yN.upper() != "Y")
proceeds(yN) == upper(yN) = "Y"

\* bool(response.code)
HasCode(r) == r["code"] \notin {None, Str("")}

\* a reply of the current run and whether format was applied to it
Obtained(raw, tried) == [raw |-> raw, tried |-> tried]

InitFlow ==
    /\ RegistryOff
    /\ CompilerOff
    /\ LoopOff
    /\ AgentsOff
    /\ ScriptOff
    /\ entry \in {"StructuredJSONFlow", "CodeInterpreterFlow"}
    /\ max_retry \in IF entry = "CodeInterpreterFlow" THEN {DefaultRetry} ELSE 0..MaxRetry
    /\ fpc = "chat"
    /\ raw_message = <<>>
    /\ attempt = 0
    /\ obtained = <<>>
    /\ response = None
    /\ runs = 1
    /\ executed = <<>>
    /\ answers = <<>>
    /\ fev = "start"

\* the rest of the state, which the flows leave alone
FlowFrame ==
    UNCHANGED <<tools, functions, history, compiler, loop, agents, script, entry, max_retry>>

\* raw_message = agent.chat(...): the reply of the agent arrives
Chat(raw) ==
    /\ fpc = "chat"
    /\ raw_message' = raw
    /\ obtained' = Append(obtained, Obtained(raw, FALSE))
    /\ fpc' = "format"
    /\ fev' = "reply"
    /\ FlowFrame
    /\ UNCHANGED <<attempt, response, runs, executed, answers>>

\* one pass of `for _ in range(max_retry)`: format is tried on raw_message;
\* its value is returned, or its exception is caught and the agent is asked
\* again.  When the range is used up run returns None.
Format ==
    /\ fpc = "format"
    /\ IF attempt < max_retry
       THEN /\ attempt' = attempt + 1
            /\ obtained' = [obtained EXCEPT ![Len(obtained)].tried = TRUE]
            /\ \E r \in {format(raw_message)} :
                  IF r.ok
                  THEN /\ response' = r.value
                       /\ fpc' = "returned"
                       /\ fev' = "parsed"
                  ELSE /\ fpc' = "chat"
                       /\ fev' = "retry"
                       /\ UNCHANGED response
       ELSE /\ response' = None
            /\ fpc' = "returned"
            /\ fev' = "gave up"
            /\ UNCHANGED <<attempt, obtained>>
    /\ FlowFrame
    /\ UNCHANGED <<raw_message, runs, executed, answers>>

\* StructuredJSONFlow.run has returned.  CodeInterpreterFlow.run looks at the
\* response: response.code on None raises AttributeError; a response with
\* code goes to the confirmation; any other response ends the flow.
Returned ==
    /\ fpc = "returned"
    /\ IF entry = "StructuredJSONFlow" THEN fpc' = "done" /\ fev' = "returned"
       ELSE IF response = None THEN fpc' = "done" /\ fev' = "crashed"
       ELSE IF HasCode(response) THEN fpc' = "confirm" /\ fev' = "shown"
       ELSE fpc' = "done" /\ fev' = "ended"
    /\ FlowFrame
    /\ UNCHANGED <<raw_message, attempt, obtained, response, runs, executed, answers>>

\* the operator answers the confirmation.  On a yes get_next_prompt runs the
\* code in a shell when action is "code" and language is "bash" (and asks
\* the operator or returns the answer otherwise), and the agent is asked
\* again; on any other answer the flow ends.
Answer(yN) ==
    /\ fpc = "confirm"
    /\ answers' = Append(answers, <<runs, yN>>)
    /\ IF proceeds(yN)
       THEN /\ runs < MaxRuns
            /\ executed' = IF response["action"] = Str("code") /\ response["language"] = Str("bash")
                           THEN Append(executed, runs)
                           ELSE executed
            /\ runs' = runs + 1
            /\ raw_message' = <<>>
            /\ attempt' = 0
            /\ obtained' = <<>>
            /\ fpc' = "chat"
            /\ fev' = "next"
            /\ UNCHANGED response
       ELSE /\ fpc' = "done"
            /\ fev' = "stopped"
            /\ UNCHANGED <<raw_message, attempt, obtained, response, runs, executed>>
    /\ FlowFrame

NextFlow ==
    \/ \E raw \in Replies : Chat(raw)
    \/ Format
    \/ Returned
    \/ \E yN \in Typed : Answer(yN)

\* a run of StructuredJSONFlow.run or of CodeInterpreterFlow.run
SpecFlow == InitFlow /\ [][NextFlow]_vars

(***************************************************************************)
(* generate_and_execute_code of code_execution_script.py: the agent        *)
(* answers with a JSON text that lists code snippets, the operator         *)
(* confirms each snippet, CodeInterpreter runs it, and the agent is asked  *)
(* again.  A response is given by what json.loads makes of it.             *)
(***************************************************************************)
\* the most chat requests that the agent answers in one run
MaxChats == 3

\* the snippets: one sets the variable state to the text completed, one
\* stores a result in the dict state
Snippets == {"state = 'completed'", "state['x'] = 1"}

\* a response that is no JSON text
NotJSON == [json |-> FALSE, code_snippets |-> <<>>]

\* a response that is a JSON object with the list code_snippets
SnippetList(snippets) == [json |-> TRUE, code_snippets |-> snippets]

\* the responses of the agent
Responses ==
    {NotJSON, SnippetList(<<>>)}
        \cup {SnippetList(<<a>>) : a \in Snippets}
        \cup {SnippetList(<<a, b>>) : a, b \in Snippets}

\* interpreter.runcode(code): the value of the variable state afterwards.
\* runcode reports an exception of the code itself and does not raise it.
runcode(code, st) ==
    CASE code = "state = {}" -> Dict(<<>>)
      [] code = "state = 'completed'" -> Str("completed")
      [] code = "state['x'] = 1" ->
             IF IsDict(st) THEN Dict(DictSet(st[2], "x", Num(1))) ELSE st
      [] OTHER -> st

\* CodeInterpreter.parse_and_execute(code): the state after the code and the
\* dict that is returned
parse_and_execute(code, st) ==
    LET after == runcode(code, st)
    IN  [state |-> after,
         result |-> Dict(<< <<"status", Str("success")>>, <<"code", Str(code)>>,
                            <<"state", after>> >>)]

\* a == b on Python values: values of different types are not equal
PyEq(a, b) == a[1] = b[1] /\ a = b

\* code_result == "completed"
is_completed(result) == PyEq(result, Str("completed"))

\* str.lower()
lower(text) ==
    CASE text = "Y" -> "y"
      [] text = "N" -> "n"
      [] OTHER -> text

InitScript ==
    /\ RegistryOff
    /\ CompilerOff
    /\ LoopOff
    /\ AgentsOff
    /\ FlowOff
    /\ spc = "chat"
    /\ script_response = NotJSON
    /\ code_snippets = <<>>
    /\ pos = 0
    /\ state = parse_and_execute("state = {}", None).state
    /\ code_result = None
    /\ chats = 0
    /\ sent_in_pass = 0
    /\ sev = "start"

\* the rest of the state, which the script leaves alone
ScriptFrame == UNCHANGED <<tools, functions, history, compiler, loop, agents, flow>>

\* response = await deep_seek_engineer.chat(...): the agent answers, the first
\* request or the one that follows a snippet
Respond(res) ==
    /\ spc = "chat"
    /\ chats < MaxChats
    /\ chats' = chats + 1
    /\ script_response' = res
    /\ IF chats = 0
       THEN /\ spc' = "loads"
            /\ UNCHANGED <<pos, sent_in_pass>>
       ELSE /\ spc' = "for"
            /\ pos' = pos + 1
            /\ sent_in_pass' = sent_in_pass + 1
    /\ sev' = "response"
    /\ ScriptFrame
    /\ UNCHANGED <<code_snippets, state, code_result>>

\* json.loads(response) and response_data.get("code_snippets", []), before
\* the loop and at the end of each pass of `while True`: a response that is
\* no JSON text ends the run, any other starts the next pass
Loads ==
    /\ spc = "loads"
    /\ IF script_response.json
       THEN /\ code_snippets' = script_response.code_snippets
            /\ pos' = 1
            /\ sent_in_pass' = 0
            /\ spc' = "for"
            /\ sev' = "pass"
       ELSE /\ spc' = "done"
            /\ sev' = "no json"
            /\ UNCHANGED <<code_snippets, pos, sent_in_pass>>
    /\ ScriptFrame
    /\ UNCHANGED <<script_response, state, code_result, chats>>

\* for code_snippet in code_snippets: the next snippet is shown, or the
\* list is used up and the pass ends
For ==
    /\ spc = "for"
    /\ IF pos <= Len(code_snippets)
       THEN /\ spc' = "confirm"
            /\ sev' = "snippet"
       ELSE /\ spc' = "loads"
            /\ sev' = "pass over"
    /\ ScriptFrame
    /\ UNCHANGED <<script_response, code_snippets, pos, state, code_result, chats, sent_in_pass>>

\* the operator answers the confirmation of the snippet: on y the snippet is
\* run and the run returns if the result is found completed; otherwise, and
\* on any other answer, the agent is asked again
ConfirmSnippet(confirm) ==
    /\ spc = "confirm"
    /\ IF lower(confirm) = "y"
       THEN \E r \in {parse_and_execute(code_snippets[pos], state)} :
               /\ state' = r.state
               /\ code_result' = r.result
               /\ sev' = "executed"
               /\ spc' = IF is_completed(r.result) THEN "done" ELSE "chat"
       ELSE /\ sev' = "skipped"
            /\ spc' = "chat"
            /\ UNCHANGED <<state, code_result>>
    /\ ScriptFrame
    /\ UNCHANGED <<script_response, code_snippets, pos, chats, sent_in_pass>>

NextScript ==
    \/ \E res \in Responses : Respond(res)
    \/ Loads
    \/ For
    \/ \E confirm \in {"y", "Y", "n"} : ConfirmSnippet(confirm)

\* a run of generate_and_execute_code
SpecScript == InitScript /\ [][NextScript]_vars

(***************************************************************************)
(* The dispatcher: LLMToolManager.exec.                                    *)
(***************************************************************************)
\* the last call was exec
Executed == last.op = "exec"

\* the payload of the last request, parsed
LastArguments == json_loads(last.res.arguments)

\* the last request names a registered tool
LastRegistered == last.res.name \in DOMAIN last.before.functions

\* the callable bound to the name of the last request
LastCallable == last.before.functions[last.res.name]

\* the keyword arguments m bind f: nothing but parameters, and every
\* parameter that has no default
Binds(f, m) ==
    /\ IsDict(m)
    /\ Keys(m) \subseteq Range(Params(f))
    /\ (Range(Params(f)) \ Defaults(f)) \subseteq Keys(m)

\* the last request reached a registered callable, and the callable raised
CallableRaised ==
    /\ Executed
    /\ LastRegistered
    /\ LastArguments.ok
    /\ Binds(LastCallable, LastArguments.value)
    /\ Body(LastCallable, LastArguments.value).kind = "raise"

UnknownName == Executed /\ ~LastRegistered

ErrorTag(out) ==
    IF out.kind # "raise" THEN "none"
    ELSE IF out.exc.type = "JSONDecodeError" THEN "MalformedArguments"
    ELSE IF out.exc = Exc("TypeError", <<"argument after ** must be a mapping">>)
    THEN "MalformedArguments"
    ELSE IF out.exc.type = "ValueError" /\ out.exc.msg[1] = "not registered" THEN "UnknownTool"
    ELSE "ToolError"

\* the payload of the last request is no serialised key-value map
NotAMap == Executed /\ (~LastArguments.ok \/ ~IsDict(LastArguments.value))

\* C6: a payload that is no serialised key-value map fails with
\* MalformedArguments whether or not the name is registered, and no callable
\* is invoked
C6_MalformedBeforeUnknown ==
    NotAMap =>
        /\ ErrorTag(last.out) = "MalformedArguments"
        /\ last.out.calls = <<>>

\* the last request names a registered tool f and carries serialize(m) for an
\* argument map m whose keys are parameters of f
SerialisedFor(m) ==
    /\ Executed
    /\ LastRegistered
    /\ last.res.arguments = json_dumps(m)
    /\ Keys(m) \subseteq Range(Params(LastCallable))

\* exec ran f once with exactly the entries of m and gave f's outcome unchanged
InvokedOnceWith(m) ==
    /\ last.out.calls = << [fn |-> LastCallable, kw |-> m] >>
    /\ last.out = Body(LastCallable, m)

\* C8 as claimed: for every argument map m whose keys are parameters of the
\* bound callable f, exec on serialize(m) invokes f once with the entries of m
\* and gives f's result unchanged
C8_ExecInvokesForEveryMap ==
    \A m \in ArgMaps : SerialisedFor(m) => InvokedOnceWith(m)

\* C8: for every argument map m whose keys are parameters of the bound callable
\* f and that has every parameter of f without a default, exec on serialize(m)
\* invokes f exactly once with the entries of m as named parameters and gives
\* f's result unchanged; add with {a: 2, b: 3} yields 5
C8_ExecInvokesBoundCallable ==
    \A m \in ArgMaps :
        (SerialisedFor(m) /\ Binds(LastCallable, m)) =>
            /\ InvokedOnceWith(m)
            /\ (LastCallable = "add" /\ m = Dict(<< <<"a", Num(2)>>, <<"b", Num(3)>> >>))
                 => (last.out.kind = "return" /\ last.out.value = Num(5))

C8_Witness ==
    /\ SerialisedFor(Dict(<< <<"a", Num(2)>>, <<"b", Num(3)>> >>))
    /\ LastCallable = "add"
    /\ last.out.value = Num(5)

(***************************************************************************)
(* The registry: LLMToolManager.register.                                  *)
(***************************************************************************)
\* the entries of tools that carry the name n
EntriesNamed(n) == {j \in 1..Len(tools) : tools[j].name = n}

\* C9: tools holds exactly one entry for each distinct registered name
C9_OneSchemaPerName ==
    \A n \in DOMAIN functions : Cardinality(EntriesNamed(n)) = 1

\* C10: in every schema of tools, the required list is a subset of the keys of
\* the schema's own properties map
C10_RequiredWithinProperties ==
    \A j \in 1..Len(tools) : Range(tools[j].required) \subseteq Keys(tools[j].properties)

\* the last call was register
Registering == last.op = "register"

\* the name the last register call binds
LastName == IF last.call.name # None THEN last.call.name[2] ELSE last.call.f

\* the callable of the most recent successful registration under n
MostRecent(n) ==
    LET js == {j \in 1..Len(registered) : registered[j].name = n}
    IN  registered[CHOOSE j \in js : \A h \in js : h <= j].f

\* C11: a call request for a registered name n is passed to the callable of
\* the most recent successful registration under n, and a register call under
\* a name that is already bound fails or succeeds as it does on a new registry
C11_LastRegistrationWins ==
    /\ (Executed /\ LastArguments.ok /\ LastRegistered) =>
          last.out = Call(MostRecent(last.res.name), LastArguments.value)
    /\ (Registering /\ LastName \in DOMAIN last.before.functions) =>
          last.reg = parse_func(last.call.f, last.call.name, last.call.description,
                                last.call.required, last.call.parameters)

C11_Witness ==
    /\ Executed
    /\ last.res.name = "add"
    /\ Len(registered) = 2
    /\ registered[1].f = "add"
    /\ registered[2].f = "explore_directory"
    /\ registered[2].name = "add"
    /\ last.out.kind = "return"
    /\ last.out.calls # <<>>
    /\ last.out.calls[1].fn = "explore_directory"

(***************************************************************************)
(* The schema compiler: LLMToolParser.parse_func.                          *)
(***************************************************************************)
\* the last call was a register call that succeeded
RegisteredLast == Registering /\ last.reg.ok

\* typ is Optional[T]
IsOptional(typ) == typ[1] = "Union" /\ TNone \in Range(get_args(typ))

\* the "type" entry of the schema of parameter param
TypeOf(schema, param) == Get(Get(schema.properties, param), "type")

\* C12: with no required and no parameters override, a parameter declared
\* Optional[T] gets the schema of T and is not in required, every other
\* parameter is in required; greet(a: int, b: Optional[str]) gives
\* required = [a] and parameters {a: integer, b: string}
C12_OptionalNotRequired ==
    (RegisteredLast /\ last.call.required = None /\ last.call.parameters = None) =>
        LET f == last.call.f
            schema == last.reg.value
        IN  /\ \A j \in 1..Len(Hints(f)) :
                 LET param == Hints(f)[j][1]
                     typ == Hints(f)[j][2]
                 IN  IF IsOptional(typ)
                     THEN /\ param \notin Range(schema.required)
                          /\ Get(schema.properties, param) =
                               param_schema(f, param, get_args(typ)[1]).value
                     ELSE param \in Range(schema.required)
            /\ f = "greet" =>
                 /\ schema.required = <<"a">>
                 /\ TypeOf(schema, "a") = Str("integer")
                 /\ TypeOf(schema, "b") = Str("string")

\* a formal parameter of f, or its return value, has no declared type
MissingAnnotation(f) ==
    \/ Range(Params(f)) # Range(all_params(f))
    \/ ~HasReturn(f)

\* C13: register fails with TypeError for every callable that has a formal
\* parameter or a return value without a declared type, and no such callable
\* is ever among the registered ones
C13_UnannotatedRejected ==
    /\ (Registering /\ MissingAnnotation(last.call.f)) =>
          /\ ~last.reg.ok
          /\ last.reg.exc.type = "TypeError"
    /\ \A j \in 1..Len(registered) : ~MissingAnnotation(registered[j].f)

\* C14: a register call that fails leaves tools and functions as they were
\* before the call
C14_FailedRegisterFrame ==
    (Registering /\ ~last.reg.ok) =>
        /\ tools = last.before.tools
        /\ functions = last.before.functions

C14_Witness ==
    /\ Registering
    /\ ~last.reg.ok
    /\ last.reg.exc.type = "ValueError"
    /\ last.call.f = "open_path"
    /\ Len(tools) = 1
    /\ LastName \notin DOMAIN functions

\* the names a parameters or required override of the last register call gives
OverrideNames ==
    (IF last.call.parameters # None THEN Keys(last.call.parameters) ELSE {})
    \cup (IF last.call.required # None THEN Range(last.call.required[2]) ELSE {})

\* C15: the keys of the parameter map and the names in required of every
\* schema in tools are formal parameters of the callable bound to the schema's
\* name, and register fails with ValueError when an override names a
\* parameter that the callable does not have
C15_SchemaNamesAreParameters ==
    /\ \A j \in 1..Len(tools) :
          LET f == functions[tools[j].name]
          IN  /\ Keys(tools[j].properties) \subseteq Range(Params(f))
              /\ Range(tools[j].required) \subseteq Range(Params(f))
    /\ (Registering /\ ~(OverrideNames \subseteq Range(Params(last.call.f)))) =>
          /\ ~last.reg.ok
          /\ validate_type_hints(last.call.f).ok => last.reg.exc.type = "ValueError"

\* f has no description text: no docstring, or one of white space only
NoDescriptionText(f) == ~HasDoc(f) \/ BlankDoc(f)

\* C16: no schema in tools has an empty description, and register fails with
\* ValueError when the callable has no description text and the call gives
\* no description
C16_DescriptionNonEmpty ==
    /\ \A j \in 1..Len(tools) : tools[j].description # EmptyText
    /\ (Registering /\ NoDescriptionText(last.call.f) /\ last.call.description = None) =>
          /\ ~last.reg.ok
          /\ validate(last.call.f, last.call.parameters, last.call.required).ok =>
                last.reg.exc.type = "ValueError"

\* typ is a class type, a union of more than one alternative besides None, or
\* a sequence or mapping that holds such a type
RECURSIVE Unsupported(_)
Unsupported(typ) ==
    CASE typ[1] = "class" -> TRUE
      [] typ[1] = "Union" -> Len(SelectSeq(get_args(typ), LAMBDA a : a # TNone)) > 1
      [] typ[1] \in {"List", "Dict"} ->
           \E j \in 1..Len(get_args(typ)) : Unsupported(get_args(typ)[j])
      [] OTHER -> FALSE

\* the first parameter of f that has an unsupported type, as <<parameter, type>>
FirstUnsupported(f) ==
    Hints(f)[CHOOSE j \in 1..Len(Hints(f)) :
               /\ Unsupported(Hints(f)[j][2])
               /\ \A h \in 1..(j - 1) : ~Unsupported(Hints(f)[h][2])]

\* C17: register fails with ValueError, naming the parameter and the type,
\* for every callable that has a parameter of an unsupported type, whatever
\* overrides the call gives
C17_UnsupportedTypeRejected ==
    (Registering /\ \E j \in 1..Len(Hints(last.call.f)) : Unsupported(Hints(last.call.f)[j][2])) =>
        /\ ~last.reg.ok
        /\ last.reg.exc.type = "ValueError"
        /\ last.reg.exc.msg = <<"unsupported type", FirstUnsupported(last.call.f)[1],
                                FirstUnsupported(last.call.f)[2]>>

\* C19: tools is the sequence of the schemas that the successful register
\* calls returned, in call order; a successful register call appends its
\* schema and every other call leaves tools as it is
C19_ToolsAppendOnly ==
    [][/\ tools' = [j \in 1..Len(registered') |-> registered'[j].schema]
       /\ IF last'.op = "register" /\ last'.reg.ok
          THEN tools' = Append(tools, last'.reg.value)
          ELSE tools' = tools]_vars

C19_Witness ==
    /\ RegisteredLast
    /\ Len(tools) = 2
    /\ tools[1].name = tools[2].name
    /\ tools[1] # tools[2]
    /\ tools[2] = last.reg.value

\* typ is built from str, int, float, bool, List[T], List and Dict[str, V]
RECURSIVE InTable(_)
InTable(typ) ==
    CASE typ \in {TStr, TInt, TFloat, TBool} -> TRUE
      [] typ[1] = "List" -> Len(get_args(typ)) = 0 \/ InTable(get_args(typ)[1])
      [] typ[1] = "Dict" ->
           /\ Len(get_args(typ)) = 2
           /\ get_args(typ)[1] = TStr
           /\ InTable(get_args(typ)[2])
      [] OTHER -> FALSE

\* the reference table applied recursively to a type of the table
RECURSIVE ReferenceSchema(_)
ReferenceSchema(typ) ==
    CASE typ = TStr -> Dict(<< <<"type", Str("string")>> >>)
      [] typ = TInt -> Dict(<< <<"type", Str("integer")>> >>)
      [] typ = TFloat -> Dict(<< <<"type", Str("number")>> >>)
      [] typ = TBool -> Dict(<< <<"type", Str("boolean")>> >>)
      [] typ[1] = "List" ->
           Dict(<< <<"type", Str("array")>>,
                   <<"items", IF Len(get_args(typ)) = 0 THEN Dict(<<>>)
                              ELSE ReferenceSchema(get_args(typ)[1])>> >>)
      [] typ[1] = "Dict" ->
           Dict(<< <<"type", Str("object")>>,
                   <<"additionalProperties", ReferenceSchema(get_args(typ)[2])>> >>)

\* the schema of a parameter without its description
WithoutDescription(schema) ==
    Dict(SelectSeq(schema[2], LAMBDA pair : pair[1] # "description"))

\* C18: for every declared type of the table the compiled schema of the
\* parameter is the reference table applied recursively: items of an array
\* and additionalProperties of an object are schemas of the same form
C18_CompiledEqualsReference ==
    (compiled # Ok(None) /\ InTable(python_type)) =>
        /\ compiled.ok
        /\ WithoutDescription(compiled.value) = ReferenceSchema(python_type)

(***************************************************************************)
(* The conversation loops.                                                 *)
(***************************************************************************)
\* the call just executed returned the sentinel
SentinelReturned ==
    /\ pc = "result"
    /\ func_out.kind = "return"
    /\ func_out.value = Str("COMPLETE")

\* C1: in both loops, once an executed call request has returned "COMPLETE"
\* the next step leaves the loop: no request is approved or dispatched, no
\* model request is sent and the conversation state is not touched; and no
\* step is taken after the loop is left, whatever requests of the turn remain
C1_SentinelEndsLoop ==
    [][/\ SentinelReturned =>
            /\ pc' = "done"
            /\ ended' = "COMPLETE"
            /\ approved' = approved
            /\ dispatched' = dispatched
            /\ i' = i
            /\ messages' = messages
       /\ pc # "done"]_vars

C1_Witness ==
    /\ pc = "done"
    /\ ended = "COMPLETE"
    /\ k < Len(function_calls)
    /\ i < MaxSteps

\* the requests whose callable has been invoked or that were passed to exec
\* were approved by the operator
OnlyApprovedDispatched ==
    /\ \A j \in 1..Len(dispatched) : dispatched[j] \in approved
    /\ (pc = "result" /\ func_out.calls # <<>>) => function_calls[k].id \in approved

\* C2 as stated: in every run of either loop a call request is dispatched only
\* after the operator approved that same request
C2_DispatchOnlyApproved == OnlyApprovedDispatched

\* C2: in every run of code_generate a call request is dispatched only after
\* the operator approved that same request; a request that was declined or
\* not asked about is never passed to exec and its callable is never invoked
C2_GenerateDispatchesOnlyApproved ==
    variant = "code_generate" => OnlyApprovedDispatched

C2_Witness ==
    /\ variant = "code_generate"
    /\ ev = "declined"
    /\ dispatched # <<>>
    /\ \E j \in 1..Len(messages) : messages[j].role = "tool"

\* the tool messages that answer a request of turn t
ToolMessagesOf(t) == {j \in 1..Len(messages) : messages[j].role = "tool" /\ messages[j].turn = t}

\* C3: right after the operator declined a request, at any position of the
\* turn, the conversation state is as long as it was just before the assistant
\* message of the turn was appended and holds no tool message of the turn
C3_DeclineRestoresLength ==
    (variant = "code_generate" /\ ev = "declined") =>
        /\ Len(messages) = turn_len
        /\ ToolMessagesOf(i) = {}

\* C7: the step that calls exec leaves tools and functions as they were and
\* appends nothing to and removes nothing from the conversation state, in
\* every outcome of the call
C7_ExecFrame ==
    [][pc = "exec" =>
          /\ tools' = tools
          /\ functions' = functions
          /\ messages' = messages]_vars

C7_Witness ==
    /\ pc = "result"
    /\ func_out.kind = "raise"
    /\ func_out.calls # <<>>
    /\ Len(dispatched) > 1

\* id x comes before id y in the order the requests were received
Before(x, y) == x[1] < y[1] \/ (x[1] = y[1] /\ x[2] < y[2])

\* a request of the turn is being confirmed or executed
InTurn == pc \in {"confirm", "exec", "result"}

\* C20: the requests of a turn are handled one at a time in the order
\* received: the loop moves from request k only to request k + 1 and only
\* when k is handled, it leaves the turn only after the last request, what
\* is approved or dispatched is the request at position k and comes after
\* everything dispatched before, and a model request is sent only when no
\* request of a turn is in hand
C20_RequestsInOrder ==
    [][/\ InTurn => (k \in 1..Len(function_calls) /\ function_calls[k].id = <<i, k>>)
       /\ (InTurn /\ k' # k) =>
             \/ k' = k + 1 /\ pc \in {"confirm", "result"} /\ pc' \in {"confirm", "exec"}
                            /\ function_calls' = function_calls /\ i' = i
             \/ k' = 0 /\ k = Len(function_calls) /\ pc' = "model"
       /\ (InTurn /\ k' = k) => (function_calls' = function_calls /\ i' = i)
       /\ approved' # approved =>
             (pc = "confirm" /\ approved' = approved \cup {function_calls[k].id})
       /\ dispatched' # dispatched =>
             /\ pc = "exec"
             /\ dispatched' = Append(dispatched, function_calls[k].id)
             /\ \A j \in 1..Len(dispatched) : Before(dispatched[j], function_calls[k].id)
       /\ i' # i => (pc = "model" /\ k = 0 /\ function_calls = <<>> /\ i' = i + 1)]_vars

C20_Witness ==
    /\ pc = "exec"
    /\ k = 2
    /\ dispatched # <<>>
    /\ dispatched[Len(dispatched)] = function_calls[1].id
    /\ \E j \in 1..Len(messages) : messages[j].role = "tool" /\ messages[j].turn = i

(***************************************************************************)
(* The conversation loops: how a run ends and what the next request says.  *)
(***************************************************************************)
\* C21: a run sends at most MaxSteps model requests and is left only because
\* a call returned the sentinel or because every turn is used up; a declined
\* request, a reply without call requests and a failed dispatch leave the run
\* going
C21_EndsBySentinelOrMaxSteps ==
    /\ i <= MaxSteps
    /\ pc = "done" => ended \in {"COMPLETE", "exhausted"}
    /\ ended = "exhausted" => i = MaxSteps
    /\ ev \in {"declined", "failed", "text"} => pc # "done"

\* the requests of the last turn that failed in the dispatcher
FailedInTurn == {j \in 1..Len(handled) : handled[j].what = "failed"}

\* the requests of the last turn that the operator declined
DeclinedInTurn == {j \in 1..Len(handled) : handled[j].what = "declined"}

\* the loop is about to send a model request: its prompt is next_prompt
AboutToAsk == pc = "model" /\ i < MaxSteps

\* C22: when the loop is about to send a model request after a turn in which
\* a dispatch failed with reason e, at any position of the turn, the prompt
\* of that request is the error prompt made from e
C22_ErrorPromptIsNext ==
    AboutToAsk => \A j \in FailedInTurn : next_prompt = handled[j].prompt

\* C23: a declined request is never dispatched, and when the loop is about to
\* send a model request after a turn in which the operator declined a request
\* with text t, at any position of the turn, the prompt of that request is t
C23_DeclineTextIsNext ==
    /\ \A j \in DeclinedInTurn :
          \A h \in 1..Len(dispatched) : dispatched[h] # handled[j].id
    /\ AboutToAsk => \A j \in DeclinedInTurn : next_prompt = handled[j].prompt

\* the call request whose result ended the run
EndingRequest == function_calls[k].function

\* C24: a run ends through the sentinel only when the complete tool was
\* invoked: the result of any other registered tool, the text COMPLETE
\* included, does not end the run
C24_OnlyCompleteEndsLoop ==
    (pc = "done" /\ ended = "COMPLETE") => EndingRequest.name = "complete"

(***************************************************************************)
(* The conversation state.                                                 *)
(***************************************************************************)
\* the message at position j from the end of the conversation state
FromEnd(j) == messages[Len(messages) + 1 - j]

\* C25: a turn in which the model answers with text and no call request
\* removes no message: right after it the conversation state ends with the
\* user prompt and the assistant reply of that turn
C25_TextTurnKeepsBoth ==
    ev = "text" =>
        /\ Len(messages) = turn_len + 1
        /\ FromEnd(1).role = "assistant" /\ FromEnd(1).turn = i
        /\ FromEnd(2).role = "user" /\ FromEnd(2).turn = i

\* the message at position j is a tool message with an assistant message
\* before it that carries the call request it answers
Answers(j) ==
    \E h \in 1..(j - 1) :
        /\ messages[h].role = "assistant"
        /\ messages[h].turn = messages[j].turn
        /\ messages[j].idx \in 1..messages[h].idx

\* C26: every tool message of the conversation state answers a call request
\* of an assistant message that stands before it, and a request that ran and
\* returned something other than the sentinel has just appended one such
\* message
C26_ToolMessageFollowsRequest ==
    /\ \A j \in 1..Len(messages) : messages[j].role = "tool" => Answers(j)
    /\ ev = "appended" =>
          /\ FromEnd(1).role = "tool"
          /\ FromEnd(1).turn = i
          /\ Cardinality({j \in 1..Len(messages) : messages[j].role = "tool"
                              /\ messages[j].turn = i
                              /\ messages[j].idx = FromEnd(1).idx}) = 1

\* the loop is busy with the request at position k of the turn
Busy == pc \in {"confirm", "exec", "result"}

\* C27: no call request is handed to the dispatcher twice, and a request that
\* failed or was declined is not the one the loop turns to next
C27_DispatchedAtMostOnce ==
    /\ \A a, b \in 1..Len(dispatched) : a # b => dispatched[a] # dispatched[b]
    /\ Busy => \A j \in 1..Len(handled) : handled[j].id # function_calls[k].id

\* a request failed in the dispatcher and the loop has dispatched a later one
C27_Witness ==
    /\ ev = "executed"
    /\ Len(dispatched) >= 2
    /\ \E j \in FailedInTurn : handled[j].id = dispatched[Len(dispatched) - 1]

\* C28: once a dispatch of the turn has failed, the loop asks about and runs
\* no further request of that turn: it is at the next model request
C28_FailureEndsTurn ==
    Busy => FailedInTurn = {}

\* C29: a step that shortens the conversation state removes the assistant
\* message of the current turn, never a system, user or tool message
C29_RollbackRemovesAssistant ==
    [][Len(messages') < Len(messages) =>
          /\ FromEnd(1).role = "assistant"
          /\ FromEnd(1).turn = i]_vars

\* C30: in code_generate the rollbacks of a turn remove no more than the turn
\* appended: the conversation state is never shorter than it was when the
\* turn began, the system message stays at its head, and pop_message is never
\* called on an empty conversation state
C30_RollbacksStayInTurn ==
    variant = "code_generate" =>
        /\ Len(messages) >= turn_len - 1
        /\ messages # <<>>
        /\ messages[1] = SystemMessage
        /\ ended # "exception"

(***************************************************************************)
(* Termination of the conversation loops.                                  *)
(***************************************************************************)
\* C31: a run in which every request and every prompt returns is left, by a
\* return or by an exception, and it never sends more than MaxSteps model
\* requests
C31_LoopTerminates ==
    /\ [](i <= MaxSteps)
    /\ <>(pc = "done")

\* the run was left because range(max_steps) was used up, each turn having
\* sent one model request
C31_Witness ==
    /\ pc = "done"
    /\ ended = "exhausted"
    /\ i = MaxSteps

(***************************************************************************)
(* The agents' conversation state.                                         *)
(***************************************************************************)
\* the step keeps the messages that agent a held, in their places
Kept(a) ==
    /\ Len(agent_messages'[a]) >= Len(agent_messages[a])
    /\ SubSeq(agent_messages'[a], 1, Len(agent_messages[a])) = agent_messages[a]

\* C32: a model request that completes has appended two messages to the list
\* of its agent, the user prompt and then the assistant reply; every list
\* begins with its system message and only grows; and a step of a call on one
\* agent leaves the list of every other agent as it was
C32_TwoMessagesPerRequest ==
    /\ [](\A a \in Agents : agent_messages[a][1] = SystemMessage)
    /\ [][/\ event'.what = "completed" =>
                \E n \in 0..1 :
                  agent_messages'[event'.agent] =
                    event'.before \o <<Msg("user", Sent(event'.agent), 0,
                                          calling[event'.agent].prompt),
                                      Msg("assistant", Sent(event'.agent), n, <<"reply">>)>>
          /\ \A a \in Agents : Kept(a)
          /\ \A b \in Agents \ {event'.agent} : agent_messages'[b] = agent_messages[b]]_vars

\* a request on each agent has completed, the one on the second agent while
\* the first agent held an earlier exchange
C32_Witness ==
    /\ event.what = "completed"
    /\ \A a \in Agents : Len(agent_messages[a]) >= 3 /\ calling[a].op = "none"

\* C33: when the transport raises inside chat or tool, the conversation state
\* of the agent is what it was before the call: no user message is left
\* without a reply after it
C33_FailedRequestLeavesNoMessage ==
    event.what = "failed" =>
        /\ agent_messages[event.agent] = event.before
        /\ agent_messages[event.agent][Len(agent_messages[event.agent])].role # "user"

(***************************************************************************)
(* The flows.                                                              *)
(***************************************************************************)
\* the chat requests that the current call of StructuredJSONFlow.run has sent
Chats == Len(obtained) + IF fpc = "chat" THEN 1 ELSE 0

\* the reply at position j of the current call parses into the model class
Parses(j) == format(obtained[j].raw).ok

\* C34: StructuredJSONFlow.run sends at most max_retry + 1 chat requests; when
\* it returns, format has been tried on every reply it obtained, a value it
\* returns is the first reply that parses, and it returns None only when no
\* reply it obtained parses
C34_EveryReplyParsed ==
    /\ Chats <= max_retry + 1
    /\ fpc = "returned" =>
          /\ \A j \in 1..Len(obtained) : obtained[j].tried
          /\ response # None =>
                \E j \in 1..Len(obtained) :
                    /\ Parses(j)
                    /\ \A h \in 1..(j - 1) : ~Parses(h)
                    /\ response = format(obtained[j].raw).value
          /\ response = None => \A j \in 1..Len(obtained) : ~Parses(j)

\* the code of every response that ran was confirmed with an answer of yes,
\* and an answer not in yes ended the flow: it is the last answer, nothing
\* ran for its response and no call of the agent followed
ExecutedOnlyAfter(yes) ==
    /\ \A j \in 1..Len(executed) :
          \E h \in 1..Len(answers) : answers[h][1] = executed[j] /\ answers[h][2] \in yes
    /\ \A h \in 1..Len(answers) :
          answers[h][2] \notin yes =>
              /\ h = Len(answers)
              /\ fpc = "done"
              /\ runs = answers[h][1]
              /\ answers[h][1] \notin Range(executed)

\* C37 as stated: code runs only after the operator answered Y to the
\* confirmation for that response, and any other answer ends the flow with
\* nothing run and no further request
C37_ExecutedOnlyAfterY == ExecutedOnlyAfter({"Y"})

\* C37: code runs only after the operator answered Y or y to the confirmation
\* for that response, and any other answer ends the flow with nothing run and
\* no further request
C37_ExecutedOnlyAfterYes == ExecutedOnlyAfter({"Y", "y"})

\* the operator said yes to a bash command, it ran, and the agent is asked again
C37_Witness ==
    /\ fev = "next"
    /\ executed # <<>>

(***************************************************************************)
(* generate_and_execute_code.                                              *)
(***************************************************************************)
\* C35: once a snippet that the operator approved has set the variable state
\* to the text completed, the run has returned: no further request is sent
C35_CompletedEndsRun ==
    (sev = "executed" /\ PyEq(state, Str("completed"))) => spc = "done"

\* C36: a pass of `while True` that is over without having returned has sent
\* a model request
C36_PassSendsRequest ==
    sev = "pass over" => sent_in_pass >= 1

====
